---- MODULE Spec2Model ----
(***************************************************************************)
(* Model of pyasic's Antminer backends (pyasic/miners/backends/antminer.py) *)
(* : the AntminerModern and AntminerOld device handles, their registry     *)
(* field extractors and their stateful toggles.                            *)
(*                                                                         *)
(* Python values are modelled as tagged records [t |-> tag, v |-> value]   *)
(* so that a key that is absent, or a value of the wrong type, is a value  *)
(* the extractors can meet.  Floats the code produces are modelled         *)
(* exactly: a hashrate rounded to 2 decimals is an integer number of       *)
(* hundredths, a temperature mean is a fraction <<num, den>> in lowest     *)
(* terms.  Strings are modelled by integer identifiers.                    *)
(***************************************************************************)
EXTENDS Integers, Sequences, FiniteSets, TLC

VARIABLES
    dialect,              \* "modern" (AntminerModern) or "old" (AntminerOld)
    expected_hashboards,  \* self.expected_hashboards
    expected_fans,        \* self.expected_fans
    light,                \* self.light, the cached Light State
    lit_by,               \* history: the operation that last switched the cache ON
    config,               \* self.config, the held Device Config
    device,               \* the device side: what it answers, what it was sent
    api_stats,            \* the stats payload the device answers with
    op,                   \* the last operation called on the handle
    inp,                  \* the inputs of that call
    ret,                  \* its outcome: the exception raised or "none", and the value
                          \* returned (val an optional scalar, list a sequence)
    queries               \* transport queries that call issued

vars == <<dialect, expected_hashboards, expected_fans, light, lit_by, config, device,
          api_stats, op, inp, ret, queries>>

---------------------------------------------------------------------------
(* Bounds of the model *)

MaxBoards == 3      \* expected_hashboards ranges over 1..MaxBoards
MaxChain == 2       \* entries in a Modern "chain" list
MaxFans == 2        \* expected_fans ranges over 1..MaxFans
MaxWindow == 2      \* consecutive populated slots in a Legacy flat response

---------------------------------------------------------------------------
(* Python values *)

Absent == [t |-> "absent", v |-> 0]
IntV(x) == [t |-> "int", v |-> x]
StrV(x) == [t |-> "str", v |-> x]
AbsentL == [t |-> "absent", v |-> <<>>]
ListV(s) == [t |-> "list", v |-> s]

\* None and a set value of an optional attribute
None == [set |-> FALSE, v |-> 0]
Some(x) == [set |-> TRUE, v |-> x]
NoneF == [set |-> FALSE, v |-> <<0, 1>>]

\* the exceptions except LookupError catches
LookupError == {"KeyError", "IndexError"}

RECURSIVE Gcd(_, _)
Gcd(a, b) == IF b = 0 THEN a ELSE Gcd(b, a % b)

\* a / b as Python's float division gives it, kept exact; a >= 0, b > 0
Frac(a, b) == LET g == Gcd(a, b) IN IF g = 0 THEN <<0, 1>> ELSE <<a \div g, b \div g>>

RECURSIVE SumSeq(_)
SumSeq(s) == IF s = <<>> THEN 0 ELSE Head(s) + SumSeq(Tail(s))

\* list(filter(lambda x: not x == 0, s))
NonZero(s) == SelectSeq(s, LAMBDA x: x # 0)

\* round(r / 1000, 2) in hundredths, r >= 0.  A tie (r ending in 5) is decided by
\* the binary double r / 1000; for the ties that are exact in binary (multiples of
\* 125) that is round-half-even, which is what is modelled.
Round2Milli(r) ==
    LET q == r \div 10
        m == r % 10
    IN  IF m < 5 THEN q
        ELSE IF m > 5 THEN q + 1
        ELSE IF q % 2 = 0 THEN q ELSE q + 1

---------------------------------------------------------------------------
(* HashBoard and Fan records (pyasic.data) *)

HashBoard(slot) ==
    [slot |-> slot, hashrate |-> None, temp |-> NoneF, chip_temp |-> NoneF,
     chips |-> None, serial_number |-> None, missing |-> TRUE]

Fan == [speed |-> 0]

\* [f(i) : i \in 1..n] as a sequence
DefaultBoards(n) == [i \in 1..n |-> HashBoard(i - 1)]

---------------------------------------------------------------------------
(* AntminerModern._get_hashboards *)

\* hashboards[idx] on a Python list of length n: the 1-based position, 0 for IndexError
PyIndex(idx, n) ==
    IF idx >= 0 /\ idx < n THEN idx + 1
    ELSE IF idx < 0 /\ idx >= -n THEN n + idx + 1
    ELSE 0

\* the exception the evaluation of hashboards[board["index"]] raises, or "none"
IndexExc(e, n) ==
    IF e.index.t = "absent" THEN "KeyError"
    ELSE IF e.index.t # "int" THEN "TypeError"
    ELSE IF PyIndex(e.index.v, n) = 0 THEN "IndexError"
    ELSE "none"

\* the exception of averaging board[key], or "none"
TempExc(f) ==
    IF f.t = "absent" THEN "KeyError"
    ELSE IF f.t # "list" THEN "TypeError"
    ELSE IF NonZero(f.v) = <<>> THEN "ZeroDivisionError"
    ELSE "none"

\* a mean that does not filter the zero readings out
TempMeanAllReadings(f) == Frac(SumSeq(f.v), Len(f.v))

\* sum(data) / len(data) over the non-zero readings
TempMean(f) == Frac(SumSeq(NonZero(f.v)), Len(NonZero(f.v)))

\* One iteration of the loop over the chain list: the boards after it and the
\* exception that ended it ("none" when it ran to its end).  Each statement's
\* right-hand side is evaluated before its target hashboards[board["index"]].
ChainEntry(boards, e) ==
    LET n == Len(boards)
        k == PyIndex(e.index.v, n)
        rateExc == IF e.rate_real.t = "absent" THEN "KeyError"
                   ELSE IF e.rate_real.t # "int" THEN "TypeError"
                   ELSE IndexExc(e, n)
        b1 == [boards EXCEPT ![k].hashrate = Some(Round2Milli(e.rate_real.v))]
        b2 == [b1 EXCEPT ![k].chips = Some(e.asic_num.v)]
        b3 == [b2 EXCEPT ![k].temp = Some(TempMean(e.temp_pcb))]
        b4 == [b3 EXCEPT ![k].chip_temp = Some(TempMean(e.temp_chip))]
        b5 == [b4 EXCEPT ![k].serial_number = Some(e.sn.v)]
        b6 == [b5 EXCEPT ![k].missing = FALSE]
    IN  IF rateExc # "none" THEN [boards |-> boards, exc |-> rateExc]
        ELSE IF e.asic_num.t = "absent" THEN [boards |-> b1, exc |-> "KeyError"]
        ELSE IF TempExc(e.temp_pcb) # "none"
            THEN [boards |-> b2, exc |-> TempExc(e.temp_pcb)]
        ELSE IF TempExc(e.temp_chip) # "none"
            THEN [boards |-> b3, exc |-> TempExc(e.temp_chip)]
        ELSE IF e.sn.t = "absent" THEN [boards |-> b4, exc |-> "KeyError"]
        ELSE [boards |-> b6, exc |-> "none"]

\* the for loop over api_stats["STATS"][0]["chain"]
RECURSIVE ChainLoop(_, _)
ChainLoop(boards, chain) ==
    IF chain = <<>> THEN [boards |-> boards, exc |-> "none"]
    ELSE LET r == ChainEntry(boards, Head(chain))
         IN  IF r.exc # "none" THEN r ELSE ChainLoop(r.boards, Tail(chain))

\* the exception of api_stats["STATS"][0]["chain"] and of iterating it, or "none"
ChainLookupExc(stats) ==
    CASE stats.shape = "nostats" -> "KeyError"
      [] stats.shape = "stats_empty" -> "IndexError"
      [] stats.shape = "nochain" -> "KeyError"
      [] stats.shape = "chain_notlist" -> "TypeError"
      [] OTHER -> "none"

\* _get_hashboards(): resp.kind is what send_command("stats") did ("APIError",
\* "empty" for a falsy payload, "payload"), stats the payload it answered with
ModernGetHashboards(n, kind, stats) ==
    LET hashboards == DefaultBoards(n)
        r == ChainLoop(hashboards, stats.chain)
    IN  IF kind = "APIError" \/ kind = "empty" THEN [exc |-> "none", val |-> hashboards]
        ELSE IF ChainLookupExc(stats) \in LookupError
            THEN [exc |-> "none", val |-> hashboards]
        ELSE IF ChainLookupExc(stats) # "none"
            THEN [exc |-> ChainLookupExc(stats), val |-> <<>>]
        ELSE IF r.exc = "none" \/ r.exc \in LookupError
            THEN [exc |-> "none", val |-> r.boards]
        ELSE [exc |-> r.exc, val |-> <<>>]

---------------------------------------------------------------------------
(* AntminerOld: the flat stats mapping api_stats["STATS"][1] *)

\* the highest key suffix the offset scans probe
MaxKey == 15

\* list(range(start, stop, step)), step > 0
RECURSIVE PyRange(_, _, _)
PyRange(start, stop, step) ==
    IF start >= stop THEN <<>> ELSE <<start>> \o PyRange(start + step, stop, step)

\* mapping.get(key): a family of numbered keys is a function on the suffixes
Get(f, i) == IF i \in DOMAIN f THEN f[i] ELSE Absent

\* Python truthiness of a fetched value (None, 0, 0.0 and "" are falsy)
Truthy(x) ==
    CASE x.t = "absent" -> FALSE
      [] x.t = "int" -> x.v # 0
      [] x.t = "float" -> x.v # 0
      [] x.t = "emptystr" -> FALSE
      [] OTHER -> TRUE

\* round(x) of a float given in tenths: to the nearest integer, ties to even
RoundTenths(v) ==
    LET q == v \div 10
        m == v % 10
    IN  IF m < 5 THEN q
        ELSE IF m > 5 THEN q + 1
        ELSE IF q % 2 = 0 THEN q ELSE q + 1

\* round(x) of a truthy value: the value, or the exception
RoundExc(x) == IF x.t \in {"int", "float"} THEN "none" ELSE "TypeError"
RoundVal(x) == IF x.t = "float" THEN RoundTenths(x.v) ELSE x.v

\* The offset scans: for num in cands: for j in range(width): the first key
\* family[num + j] that is truthy and not == 0 fixes the offset, once.
\* The candidate that was hit, or -1.
RECURSIVE ScanFrom(_, _, _, _)
ScanFrom(f, cands, width, offset) ==
    IF cands = <<>> THEN offset
    ELSE LET hit == \E j \in 0..(width - 1) : Truthy(Get(f, Head(cands) + j))
         IN  ScanFrom(f, Tail(cands), width,
                      IF hit /\ offset = -1 THEN Head(cands) ELSE offset)

---------------------------------------------------------------------------
(* AntminerOld._get_hashboards *)

BoardCandidates == PyRange(1, 16, 5)
BoardStride == 5

\* a scan in which every hit overwrites the offset, so that the last one wins
RECURSIVE ScanLast(_, _, _, _)
ScanLast(f, cands, width, offset) ==
    IF cands = <<>> THEN offset
    ELSE LET hit == \E j \in 0..(width - 1) : Truthy(Get(f, Head(cands) + j))
         IN  ScanLast(f, Tail(cands), width, IF hit THEN Head(cands) ELSE offset)

BoardOffsetLastHit(flat) ==
    LET hit == ScanLast(flat.acn, BoardCandidates, BoardStride, -1)
    IN  IF hit = -1 THEN 1 ELSE hit

\* board_offset after the scan and its default
BoardOffset(flat) ==
    LET hit == ScanFrom(flat.acn, BoardCandidates, BoardStride, -1)
    IN  IF hit = -1 THEN 1 ELSE hit

\* the body of the loop over range(board_offset, board_offset + expected_hashboards):
\* the board built for key suffix i, and the exception that interrupted it
OldBoard(flat, i, slot) ==
    LET chip_temp == Get(flat.temp, i)
        temp == Get(flat.temp2, i)
        hashrate == Get(flat.rate, i)
        chips == Get(flat.acn, i)
        h0 == HashBoard(slot)
        h1 == IF Truthy(chip_temp)
              THEN [h0 EXCEPT !.chip_temp = Some(<<RoundVal(chip_temp), 1>>)] ELSE h0
        h2 == IF Truthy(temp)
              THEN [h1 EXCEPT !.temp = Some(<<RoundVal(temp), 1>>)] ELSE h1
        h3 == IF Truthy(hashrate)
              THEN [h2 EXCEPT !.hashrate = Some(Round2Milli(hashrate.v))] ELSE h2
        h4 == IF Truthy(chips)
              THEN [h3 EXCEPT !.chips = Some(chips.v), !.missing = FALSE] ELSE h3
        h5 == IF ~Truthy(chips) \/ ~(chips.v > 0) THEN [h4 EXCEPT !.missing = TRUE] ELSE h4
    IN  IF Truthy(chip_temp) /\ RoundExc(chip_temp) # "none"
            THEN [board |-> h0, exc |-> "TypeError"]
        ELSE IF Truthy(temp) /\ RoundExc(temp) # "none"
            THEN [board |-> h1, exc |-> "TypeError"]
        ELSE IF Truthy(hashrate) /\ hashrate.t = "badstr"
            THEN [board |-> h2, exc |-> "ValueError"]
        ELSE IF Truthy(chips) /\ chips.t # "int"
            THEN [board |-> h4, exc |-> "TypeError"]
        ELSE [board |-> h5, exc |-> "none"]

\* the loop appending one board per key suffix from i to last; an exception
\* leaves the list as it was when it was raised
RECURSIVE OldBoardLoop(_, _, _, _, _)
OldBoardLoop(flat, offset, i, last, hashboards) ==
    IF i > last THEN hashboards
    ELSE LET r == OldBoard(flat, i, i - offset)
         IN  IF r.exc # "none" THEN hashboards
             ELSE OldBoardLoop(flat, offset, i + 1, last, Append(hashboards, r.board))

\* _get_hashboards(api_stats): kind is "arg" (a payload was passed in),
\* "payload" (none passed, stats() answered one), "empty" or "APIError";
\* every exception the extraction raises is one the handler catches
OldGetHashboards(n, kind, stats) ==
    LET offset == BoardOffset(stats.flat)
    IN  IF kind = "APIError" \/ kind = "empty" THEN [exc |-> "none", val |-> <<>>]
        ELSE IF stats.shape # "flat" THEN [exc |-> "none", val |-> <<>>]
        ELSE [exc |-> "none",
              val |-> OldBoardLoop(stats.flat, offset, offset, offset + n - 1, <<>>)]

---------------------------------------------------------------------------
(* AntminerOld._get_fans *)

FanCandidates == PyRange(1, 8, 4)
FanStride == 4
\* the highest fan key suffix the scan probes
MaxFanKey == 8

\* a scan that takes the candidate that was hit as the offset itself
FanOffsetAtCandidate(flat) ==
    LET hit == ScanFrom(flat.fan, FanCandidates, FanStride, -1)
    IN  IF hit = -1 THEN 3 ELSE hit

\* fan_offset after the scan (fan_num + 2 for the first candidate hit) and its default
FanOffset(flat) ==
    LET hit == ScanFrom(flat.fan, FanCandidates, FanStride, -1)
    IN  IF hit = -1 THEN 3 ELSE hit + 2

\* mapping.get(key, 0) of a fan key
GetOrZero(f, i) == IF Get(f, i).t = "absent" THEN 0 ELSE Get(f, i).v

DefaultFans(n) == [i \in 1..n |-> Fan]

\* a _get_fans that gives up with an empty list when it has no payload
OldGetFansNoDefaults(n, kind, stats) ==
    IF kind = "APIError" \/ kind = "empty" THEN [exc |-> "none", val |-> <<>>]
    ELSE IF stats.shape # "flat" THEN [exc |-> "none", val |-> DefaultFans(n)]
    ELSE [exc |-> "none",
          val |-> [i \in 1..n |->
                     [speed |-> GetOrZero(stats.flat.fan, FanOffset(stats.flat) + i - 1)]]]

\* _get_fans(api_stats): kind as for _get_hashboards; the KeyError or IndexError of
\* api_stats["STATS"][1] is caught before any fan is written
OldGetFans(n, kind, stats) ==
    LET fans_data == DefaultFans(n)
    IN  IF kind = "APIError" \/ kind = "empty" THEN [exc |-> "none", val |-> fans_data]
        ELSE IF stats.shape # "flat" THEN [exc |-> "none", val |-> fans_data]
        ELSE [exc |-> "none",
              val |-> [i \in 1..n |->
                         [speed |-> GetOrZero(stats.flat.fan,
                                              FanOffset(stats.flat) + i - 1)]]]

---------------------------------------------------------------------------
(* The stats payloads a device may answer with *)

\* readings of a well-formed Modern chain entry
Samples ==
    { [rate |-> 15000, asic |-> 80, pcb |-> <<0, 55, 57, 0>>, chip |-> <<0, 70, 71, 0>>,
       sn |-> 1],
      [rate |-> 12346, asic |-> 0, pcb |-> <<0, 60, 62, 0>>, chip |-> <<73, 0>>,
       sn |-> 2],
      [rate |-> 125, asic |-> 76, pcb |-> <<58, 61>>, chip |-> <<66>>, sn |-> 3] }

Entry(i, s) ==
    [index |-> IntV(i), rate_real |-> IntV(s.rate), asic_num |-> IntV(s.asic),
     temp_pcb |-> ListV(s.pcb), temp_chip |-> ListV(s.chip), sn |-> StrV(s.sn)]

\* a well-formed entry names a slot 0..n-1 and has a non-zero reading in each array
GoodEntries(n) == { Entry(i, s) : i \in 0..(n - 1), s \in Samples }

Defects ==
    {"no_index", "no_rate", "no_asic", "no_pcb", "no_chip", "no_sn", "str_rate",
     "zero_pcb", "zero_chip", "index_high", "index_neg"}

\* entry e with one thing wrong with it
Defect(e, d, n) ==
    CASE d = "no_index" -> [e EXCEPT !.index = Absent]
      [] d = "no_rate" -> [e EXCEPT !.rate_real = Absent]
      [] d = "no_asic" -> [e EXCEPT !.asic_num = Absent]
      [] d = "no_pcb" -> [e EXCEPT !.temp_pcb = AbsentL]
      [] d = "no_chip" -> [e EXCEPT !.temp_chip = AbsentL]
      [] d = "no_sn" -> [e EXCEPT !.sn = Absent]
      [] d = "str_rate" -> [e EXCEPT !.rate_real = StrV(1)]
      [] d = "zero_pcb" -> [e EXCEPT !.temp_pcb = ListV(<<0, 0>>)]
      [] d = "zero_chip" -> [e EXCEPT !.temp_chip = ListV(<<>>)]
      [] d = "index_high" -> [e EXCEPT !.index = IntV(n)]
      [] d = "index_neg" -> [e EXCEPT !.index = IntV(-1)]

BadEntries(n) ==
    { Defect(Entry(i, CHOOSE s \in Samples : s.sn = 1), d, n) :
        i \in 0..(n - 1), d \in Defects }

Entries(n) == GoodEntries(n) \cup BadEntries(n)

SeqsUpTo(S, k) == UNION { [1..m -> S] : m \in 0..k }

ModernPayloads(n) ==
    { [shape |-> sh, chain |-> <<>>] :
        sh \in {"nostats", "stats_empty", "nochain", "chain_notlist"} }
    \cup { [shape |-> "chain", chain |-> c] : c \in SeqsUpTo(Entries(n), MaxChain) }

\* what a Legacy firmware reports for one populated slot, key suffix i
SlotKinds == {"ok", "zero", "neg", "nochips", "badrate", "stracn"}

SlotValue(kind, i) ==
    LET ok == [acn |-> IntV(63), temp |-> [t |-> "float", v |-> 600 + 5 * i],
               temp2 |-> IntV(40 + i), rate |-> [t |-> "numstr", v |-> 4000 + 123 * i]]
    IN  CASE kind = "ok" -> ok
          [] kind = "zero" -> [acn |-> IntV(0), temp |-> IntV(0), temp2 |-> IntV(0),
                               rate |-> [t |-> "emptystr", v |-> 0]]
          [] kind = "neg" -> [ok EXCEPT !.acn = IntV(-1)]
          [] kind = "nochips" -> [ok EXCEPT !.acn = Absent]
          [] kind = "badrate" -> [ok EXCEPT !.rate = [t |-> "badstr", v |-> 0]]
          [] kind = "stracn" -> [ok EXCEPT !.acn = StrV(63)]
          [] kind = "absent" -> [acn |-> Absent, temp |-> Absent, temp2 |-> Absent,
                                 rate |-> Absent]

NoFans == [i \in 1..MaxFanKey |-> Absent]

\* the flat mapping with the slots start, start+1, ... populated as kinds says
\* and every other numbered key as pad says ("absent" or "zero")
Flat(start, kinds, pad) ==
    LET at(i) == IF i >= start /\ i < start + Len(kinds)
                 THEN SlotValue(kinds[i - start + 1], i) ELSE SlotValue(pad, i)
    IN  [acn |-> [i \in 1..MaxKey |-> at(i).acn],
         temp |-> [i \in 1..MaxKey |-> at(i).temp],
         temp2 |-> [i \in 1..MaxKey |-> at(i).temp2],
         rate |-> [i \in 1..MaxKey |-> at(i).rate],
         fan |-> NoFans]

EmptyFlat == Flat(1, <<>>, "absent")

OldBoardPayloads ==
    { [shape |-> sh, flat |-> EmptyFlat] : sh \in {"nostats", "short"} }
    \cup { [shape |-> "flat", flat |-> Flat(s, ks, pad)] :
              s \in 1..MaxKey, ks \in SeqsUpTo(SlotKinds, MaxWindow),
              pad \in {"absent", "zero"} }

---------------------------------------------------------------------------
(* The handle at construction *)

InitLight == FALSE
InitConfig == [set |-> FALSE, mode |-> "normal", pools |-> 0]
InitDevice == [conf |-> InitConfig, sent |-> 0]
NoInput == "none"
NoCall == [exc |-> "none", val |-> None, list |-> <<>>]

\* the outcome of a call that returns a list
Listed(r) == [exc |-> r.exc, val |-> None, list |-> r.val]

InitHandle ==
    /\ light = InitLight
    /\ lit_by = "none"
    /\ config = InitConfig
    /\ device = InitDevice
    /\ op = "none"
    /\ inp = NoInput
    /\ ret = NoCall
    /\ queries = 0

---------------------------------------------------------------------------
(* Hashboard collection, both dialects *)

InitBoards ==
    /\ InitHandle
    /\ dialect \in {"modern", "old"}
    /\ expected_hashboards \in 1..MaxBoards
    /\ expected_fans = 1
    /\ api_stats \in IF dialect = "modern" THEN ModernPayloads(expected_hashboards)
                      ELSE OldBoardPayloads

ModernHashboardsCall ==
    /\ dialect = "modern"
    /\ \E kind \in {"APIError", "empty", "payload"} :
          /\ op' = "_get_hashboards"
          /\ inp' = kind
          /\ ret' = Listed(ModernGetHashboards(expected_hashboards, kind, api_stats))
          /\ queries' = 1
    /\ UNCHANGED <<dialect, expected_hashboards, expected_fans, light, lit_by, config,
                   device, api_stats>>

OldHashboardsCall ==
    /\ dialect = "old"
    /\ \E kind \in {"arg", "payload", "empty", "APIError"} :
          /\ op' = "_get_hashboards"
          /\ inp' = kind
          /\ ret' = Listed(OldGetHashboards(expected_hashboards, kind, api_stats))
          /\ queries' = IF kind = "arg" THEN 0 ELSE 1
    /\ UNCHANGED <<dialect, expected_hashboards, expected_fans, light, lit_by, config,
                   device, api_stats>>

NextBoards == ModernHashboardsCall \/ OldHashboardsCall

SpecBoards == InitBoards /\ [][NextBoards]_vars

---------------------------------------------------------------------------
(* Properties of hashboard collection *)

BoardsCall == op = "_get_hashboards"
Returned == ret.list
ModernChainCall ==
    BoardsCall /\ dialect = "modern" /\ inp = "payload" /\ api_stats.shape = "chain"
OldFlatCall ==
    BoardsCall /\ dialect = "old" /\ inp \in {"arg", "payload"}
    /\ api_stats.shape = "flat"

\* C1: in both dialects and for every stats outcome, _get_hashboards returns a
\* sequence of exactly expected_hashboards boards.
C1_AlwaysExpectedHashboards ==
    BoardsCall => ret.exc = "none" /\ Len(Returned) = expected_hashboards

\* an array of readings with no non-zero reading in it
AllZero(f) == f.t = "list" /\ \A p \in DOMAIN f.v : f.v[p] = 0
ZeroTempEntry(e, n) ==
    \E g \in GoodEntries(n) :
        /\ AllZero(e.temp_pcb) \/ AllZero(e.temp_chip)
        /\ [e EXCEPT !.temp_pcb = g.temp_pcb, !.temp_chip = g.temp_chip] = g

\* C5: a Modern chain entry whose temp_pcb or temp_chip holds only zero readings,
\* or none, in an otherwise well-formed chain does not make _get_hashboards raise:
\* a board sequence is still returned.
C5_AllZeroTempsDoNotRaise ==
    ( /\ ModernChainCall
      /\ \A p \in DOMAIN api_stats.chain :
            \/ api_stats.chain[p] \in GoodEntries(expected_hashboards)
            \/ ZeroTempEntry(api_stats.chain[p], expected_hashboards)
      /\ \E p \in DOMAIN api_stats.chain :
            ZeroTempEntry(api_stats.chain[p], expected_hashboards) )
    => ret.exc = "none" /\ Len(Returned) = expected_hashboards

\* the mean of the non-zero readings of s is the fraction m
IsNonZeroMean(m, s) ==
    LET count == Cardinality({ p \in DOMAIN s : s[p] # 0 })
    IN  m[2] > 0 /\ m[1] * count = SumSeq(s) * m[2]

\* board b carries what entry e reports
Populated(b, e) ==
    /\ b.hashrate.set /\ (10 * b.hashrate.v - e.rate_real.v) \in -5..5
    /\ b.chips = Some(e.asic_num.v)
    /\ b.temp.set /\ IsNonZeroMean(b.temp.v, e.temp_pcb.v)
    /\ b.chip_temp.set /\ IsNonZeroMean(b.chip_temp.v, e.temp_chip.v)
    /\ b.serial_number = Some(e.sn.v)
    /\ b.missing = FALSE

\* C8: for a chain of well-formed entries, the board at slot entry.index carries
\* the entry's hashrate (rate_real / 1000 to 2 decimals), chips, mean non-zero
\* temp_pcb and temp_chip, serial number and missing = false (the last entry
\* naming a slot is the one it carries), and every slot no entry names keeps its
\* defaults with missing = true.
C8_ModernStructuredExtraction ==
    ( /\ ModernChainCall
      /\ \A p \in DOMAIN api_stats.chain :
            api_stats.chain[p] \in GoodEntries(expected_hashboards) )
    => /\ ret.exc = "none"
       /\ Len(Returned) = expected_hashboards
       /\ \A j \in 0..(expected_hashboards - 1) :
            LET named == { p \in DOMAIN api_stats.chain : api_stats.chain[p].index.v = j }
                last == CHOOSE p \in named : \A q \in named : q <= p
            IN  /\ Returned[j + 1].slot = j
                /\ IF named = {} THEN Returned[j + 1] = HashBoard(j)
                   ELSE Populated(Returned[j + 1], api_stats.chain[last])

\* C8 witness: the single entry of the chain names slot 0 of three, which is
\* populated with hashrate 15.0, mean temperatures 56 and 70.5, while slots 1 and
\* 2 are still missing.
C8_Witness ==
    /\ ModernChainCall
    /\ expected_hashboards = 3
    /\ Len(api_stats.chain) = 1
    /\ api_stats.chain[1] \in GoodEntries(3)
    /\ api_stats.chain[1].index.v = 0
    /\ ret.exc = "none"
    /\ Returned[1].hashrate = Some(1500)
    /\ Returned[1].temp = Some(<<56, 1>>)
    /\ Returned[1].chip_temp = Some(<<141, 2>>)
    /\ ~Returned[1].missing
    /\ Returned[2].missing /\ Returned[3].missing

\* C9: in every board either dialect returns, missing = false only if the chip
\* count was read and is non-zero.
C9_NotMissingOnlyWithChips ==
    (BoardsCall /\ ret.exc = "none")
    => \A j \in DOMAIN Returned :
         ~Returned[j].missing => Returned[j].chips.set /\ Returned[j].chips.v # 0

\* the candidate start c has a non-zero chain_acn value in its group of 5 keys
GroupNonZero(acn, c) == \E i \in c..(c + 4) : i \in DOMAIN acn /\ Truthy(acn[i])

\* the offset the claim describes: the first of 1, 6, 11 with a non-zero value in
\* its group, 1 when there is none
FirstNonZeroGroup(acn) ==
    IF \E c \in {1, 6, 11} : GroupNonZero(acn, c)
    THEN CHOOSE c \in {1, 6, 11} :
            GroupNonZero(acn, c) /\ \A d \in {1, 6, 11} : d < c => ~GroupNonZero(acn, d)
    ELSE 1

\* no value of the flat mapping is of a type the extraction fails on
WellTyped(flat) ==
    \A i \in 1..MaxKey :
        /\ flat.acn[i].t \in {"absent", "int"}
        /\ flat.rate[i].t \in {"absent", "numstr", "emptystr"}

\* board b is the one read from the keys with suffix i
ReadFromKey(b, flat, i) ==
    LET acn == Get(flat.acn, i)
        rate == Get(flat.rate, i)
        temp == Get(flat.temp, i)
        temp2 == Get(flat.temp2, i)
    IN  /\ b.chips = IF Truthy(acn) THEN Some(acn.v) ELSE None
        /\ b.missing = ~(acn.t = "int" /\ acn.v > 0)
        /\ b.hashrate.set = Truthy(rate)
        /\ b.hashrate.set => (10 * b.hashrate.v - rate.v) \in -5..5
        /\ b.chip_temp.set = Truthy(temp)
        /\ b.chip_temp.set =>
              b.chip_temp.v[2] = 1
              /\ (10 * b.chip_temp.v[1] - (IF temp.t = "float" THEN temp.v ELSE 10 * temp.v))
                    \in -5..5
        /\ b.temp.set = Truthy(temp2)
        /\ b.temp.set => b.temp.v = <<temp2.v, 1>>

\* C6: for a well-typed Legacy flat response the board offset is the first of the
\* candidates 1, 6, 11 whose group of 5 chain_acn keys holds a non-zero value, 1
\* when none does, and exactly expected_hashboards boards are returned, read from
\* the keys offset .. offset + expected_hashboards - 1 in order, with slots
\* 0 .. expected_hashboards - 1.
C6_LegacyBoardOffset ==
    (OldFlatCall /\ WellTyped(api_stats.flat))
    => LET offset == FirstNonZeroGroup(api_stats.flat.acn)
       IN  /\ ret.exc = "none"
           /\ Len(Returned) = expected_hashboards
           /\ \A j \in 1..expected_hashboards :
                /\ Returned[j].slot = j - 1
                /\ ReadFromKey(Returned[j], api_stats.flat, offset + j - 1)

\* C6 witness: the only non-zero chain_acn values are in the group starting at
\* 11, three boards are expected and three are returned, the first from key 11.
C6_Witness ==
    /\ OldFlatCall /\ WellTyped(api_stats.flat)
    /\ expected_hashboards = 3
    /\ ~GroupNonZero(api_stats.flat.acn, 1) /\ ~GroupNonZero(api_stats.flat.acn, 6)
    /\ Truthy(api_stats.flat.acn[11]) /\ Truthy(api_stats.flat.acn[12])
    /\ Len(Returned) = 3
    /\ ~Returned[1].missing /\ ~Returned[2].missing /\ Returned[3].missing
    /\ Returned[1].chip_temp = Some(<<66, 1>>)

---------------------------------------------------------------------------
(* Fan collection, Legacy dialect *)

\* what a Legacy firmware reports under the key fan<i>
FanValue(kind, i) ==
    CASE kind = "absent" -> Absent
      [] kind = "zero" -> IntV(0)
      [] kind = "rpm" -> IntV(3000 + 100 * i)

FanFamilies ==
    { [i \in 1..MaxFanKey |-> FanValue(k[i], i)] :
        k \in [1..MaxFanKey -> {"absent", "zero", "rpm"}] }

OldFanPayloads ==
    { [shape |-> sh, flat |-> EmptyFlat] : sh \in {"nostats", "short"} }
    \cup { [shape |-> "flat", flat |-> [EmptyFlat EXCEPT !.fan = f]] : f \in FanFamilies }

InitFans ==
    /\ InitHandle
    /\ dialect = "old"
    /\ expected_hashboards = 1
    /\ expected_fans \in 1..MaxFans
    /\ api_stats \in OldFanPayloads

OldFansCall ==
    /\ dialect = "old"
    /\ \E kind \in {"arg", "payload", "empty", "APIError"} :
          /\ op' = "_get_fans"
          /\ inp' = kind
          /\ ret' = Listed(OldGetFans(expected_fans, kind, api_stats))
          /\ queries' = IF kind = "arg" THEN 0 ELSE 1
    /\ UNCHANGED <<dialect, expected_hashboards, expected_fans, light, lit_by, config,
                   device, api_stats>>

NextFans == OldFansCall

SpecFans == InitFans /\ [][NextFans]_vars

FansCall == op = "_get_fans"
FansFlatCall == FansCall /\ inp \in {"arg", "payload"} /\ api_stats.shape = "flat"

\* the candidate start c has a non-zero fan value in its group of 4 keys
FanGroupNonZero(fan, c) == \E i \in c..(c + 3) : i \in DOMAIN fan /\ Truthy(fan[i])

\* the first of the candidates 1, 5 with a non-zero value in its group; 0 if none
FirstFanCandidate(fan) ==
    IF FanGroupNonZero(fan, 1) THEN 1 ELSE IF FanGroupNonZero(fan, 5) THEN 5 ELSE 0

\* the fans returned are those read from the keys first, first + 1, ...
FansReadFrom(first) ==
    \A j \in 1..expected_fans :
        LET i == first + j - 1
        IN  Returned[j].speed =
              IF i \in DOMAIN api_stats.flat.fan /\ api_stats.flat.fan[i].t # "absent"
              THEN api_stats.flat.fan[i].v ELSE 0

\* C2: _get_fans of the Legacy dialect returns exactly expected_fans fans for every
\* stats outcome, all at speed 0 when there is no STATS[1] to read, and at speed
\* 0 wherever the fan key read for the entry is absent.
C2_AlwaysExpectedFans ==
    FansCall =>
        /\ ret.exc = "none"
        /\ Len(Returned) = expected_fans
        /\ ~FansFlatCall => \A j \in 1..expected_fans : Returned[j].speed = 0
        /\ FansFlatCall =>
              \A j \in 1..expected_fans :
                  \/ Returned[j].speed = 0
                  \/ \E i \in 1..MaxFanKey :
                        /\ i >= j
                        /\ api_stats.flat.fan[i] = IntV(Returned[j].speed)
        /\ (FansFlatCall /\ \A i \in 1..MaxFanKey : api_stats.flat.fan[i].t = "absent")
              => \A j \in 1..expected_fans : Returned[j].speed = 0

\* C2 witness: the stats query failed and the fans returned are the defaults
C2_Witness ==
    /\ FansCall /\ inp = "APIError"
    /\ expected_fans = 2
    /\ Returned = <<[speed |-> 0], [speed |-> 0]>>

\* C7 as stated: the first candidate (1 or 5) with a non-zero fan value in its
\* group is the offset itself and the fans are read from it on; offset 3 when
\* every probed fan value is zero or absent.
C7_FanOffsetIsCandidate ==
    FansFlatCall =>
        LET c == FirstFanCandidate(api_stats.flat.fan)
        IN  FansReadFrom(IF c = 0 THEN 3 ELSE c)

\* C7 amended: the first candidate c (1 or 5) with a non-zero fan value in its
\* group of 4 keys sets the offset to c + 2 (3 or 7), and expected_fans
\* consecutive fan keys are read from that offset on; offset 3 when every probed
\* fan value is zero or absent.
C7_FanOffsetIsCandidatePlus2 ==
    FansFlatCall =>
        LET c == FirstFanCandidate(api_stats.flat.fan)
        IN  /\ Len(Returned) = expected_fans
            /\ FansReadFrom(IF c = 0 THEN 3 ELSE c + 2)

\* C7 witness: the only non-zero fan values are in the second group (keys 5..8),
\* and the two fans returned are those of the keys 7 and 8.
C7_Witness ==
    /\ FansFlatCall
    /\ expected_fans = 2
    /\ FirstFanCandidate(api_stats.flat.fan) = 5
    /\ Returned = <<[speed |-> 3700], [speed |-> 3800]>>

---------------------------------------------------------------------------
(* Transport responses of the small queries: [k |-> kind, v |-> value].  Kind *)
(* "APIError" is a transport failure, "empty" a falsy payload, "none" no     *)
(* payload passed in, "nokey" a payload without the key the extractor reads. *)

R(k, v) == [k |-> k, v |-> v]
NoArg == R("none", 0)
Falsy(x) == x.k \in {"none", "empty"}

\* the payload an extractor works on: the one passed in, or when that is falsy
\* the one fetched, unless the fetch failed with APIError (which is caught)
Payload(arg, fetched) ==
    IF ~Falsy(arg) THEN arg ELSE IF fetched.k = "APIError" THEN arg ELSE fetched
Fetches(arg) == IF Falsy(arg) THEN 1 ELSE 0

Result(exc, val, q) == [exc |-> exc, val |-> val, list |-> <<>>, q |-> q]
ListResult(exc, list, q) == [exc |-> exc, val |-> None, list |-> list, q |-> q]

\* a Python bool as a returned value
Bool(b) == Some(IF b THEN 1 ELSE 0)

---------------------------------------------------------------------------
(* Fault light *)

\* AntminerModern.fault_light_on / fault_light_off: the result and the new light
ModernFaultLight(l, blink, r) ==
    LET confirmed == r.k = (IF blink THEN "B000" ELSE "B100")
        l2 == IF r.k # "empty" /\ confirmed THEN blink ELSE l
    IN  IF r.k = "APIError" THEN [res |-> Result("APIError", None, 1), light |-> l]
        ELSE [res |-> Result("none", Bool(l2), 1), light |-> l2]

\* a Legacy toggle that takes any non-empty blink status for its confirmation
OldFaultLightUnchecked(l, blink, rb, rs) ==
    LET l2 == IF rs.k \in {"on", "off", "nokey"} THEN blink ELSE l
    IN  IF rb.k = "APIError" THEN [res |-> Result("APIError", None, 1), light |-> l]
        ELSE IF rs.k = "APIError" THEN [res |-> Result("APIError", None, 2), light |-> l]
        ELSE [res |-> Result("none", Bool(l2), 2), light |-> l2]

\* AntminerOld.fault_light_on / fault_light_off: rb answers blink(), rs answers
\* the get_blink_status() that follows it
OldFaultLight(l, blink, rb, rs) ==
    LET confirmed == rs.k = (IF blink THEN "on" ELSE "off")
        l2 == IF confirmed THEN blink ELSE l
    IN  IF rb.k = "APIError" THEN [res |-> Result("APIError", None, 1), light |-> l]
        ELSE IF rs.k = "APIError" THEN [res |-> Result("APIError", None, 2), light |-> l]
        ELSE [res |-> Result("none", Bool(l2), 2), light |-> l2]

\* a _get_fault_light that queries the device whatever the cached state is
GetFaultLightNoCache(l, arg, r) ==
    LET p == Payload(arg, r)
        l2 == IF p.k = "on" THEN TRUE ELSE IF p.k = "off" THEN FALSE ELSE l
    IN  [res |-> Result("none", Bool(l2), Fetches(arg)), light |-> l2]

\* _get_fault_light(web_get_blink_status), the same in both dialects but for the
\* key read ("blink", "isBlinking"): payload kinds "on", "off", "nokey"
GetFaultLight(l, arg, r) ==
    LET p == Payload(arg, r)
        l2 == IF p.k = "on" THEN TRUE ELSE IF p.k = "off" THEN FALSE ELSE l
    IN  IF l THEN [res |-> Result("none", Bool(l), 0), light |-> l]
        ELSE [res |-> Result("none", Bool(l2), Fetches(arg)), light |-> l2]

---------------------------------------------------------------------------
(* Registry field extractors *)

\* AntminerModern._get_mac(web_get_system_info): r1 answers get_system_info(),
\* r2 get_network_info(), whose APIError nothing catches
ModernGetMac(arg, r1, r2) ==
    LET p == Payload(arg, r1)
        q == Fetches(arg)
    IN  IF p.k = "ok" THEN Result("none", Some(p.v), q)
        ELSE IF r2.k = "APIError" THEN Result("APIError", None, q + 1)
        ELSE IF r2.k = "ok" THEN Result("none", Some(r2.v), q + 1)
        ELSE Result("none", None, q + 1)

\* AntminerOld._get_mac(): r1 answers get_system_info()
OldGetMac(r1) ==
    IF r1.k = "APIError" THEN Result("APIError", None, 1)
    ELSE IF r1.k = "ok" THEN Result("none", Some(r1.v), 1)
    ELSE Result("none", None, 1)

\* _get_hostname(web_get_system_info), the same in both dialects
GetHostname(arg, r1) ==
    LET p == Payload(arg, r1)
    IN  IF p.k = "ok" THEN Result("none", Some(p.v), Fetches(arg))
        ELSE Result("none", None, Fetches(arg))

\* round(v / d, 2)-style rounding of the exact quotient v / d to an integer,
\* ties to even; v >= 0, d > 0
RoundHalfEven(v, d) ==
    LET q == v \div d
        m == v % d
    IN  IF 2 * m < d THEN q
        ELSE IF 2 * m > d THEN q + 1
        ELSE IF q % 2 = 0 THEN q ELSE q + 1

\* AntminerModern._get_expected_hashrate(api_stats), in hundredths.  Payload
\* kinds: "nostats" (no STATS key), "short" (no STATS[1]), "nokey" (no
\* total_rateideal), "str" (total_rateideal is a string), and the rate units
\* "GH", "MH", "other", "nounit" (no rate_unit key) with v = total_rateideal
ModernGetExpectedHashrate(arg, r) ==
    LET p == Payload(arg, r)
        q == Fetches(arg)
    IN  CASE p.k \in {"GH", "nounit"} -> Result("none", Some(RoundHalfEven(p.v, 10)), q)
          [] p.k = "MH" -> Result("none", Some(RoundHalfEven(p.v, 10000)), q)
          [] p.k = "other" -> Result("none", Some(100 * p.v), q)
          [] p.k = "str" -> Result("TypeError", None, q)
          [] OTHER -> Result("none", None, q)

\* AntminerModern._is_mining(web_get_conf).  Payload kinds by what
\* "bitmain-work-mode" is: "digits" (v its value), "nondigit" (another string),
\* "int" (not a string, no .isdigit), "nokey"
ModernIsMining(arg, r) ==
    LET p == Payload(arg, r)
        q == Fetches(arg)
    IN  CASE p.k = "digits" -> Result("none", Bool(p.v # 1), q)
          [] p.k = "nondigit" -> Result("none", Bool(FALSE), q)
          [] p.k = "int" -> Result("AttributeError", None, q)
          [] OTHER -> Result("none", None, q)

\* AntminerOld._is_mining(web_get_conf): int() of the work mode, and when there
\* is none the answer rs of api.summary() ("APIError", "empty" for {}, "ok")
OldIsMining(arg, r, rs) ==
    LET p == Payload(arg, r)
        q == Fetches(arg)
    IN  CASE p.k \in {"digits", "int"} -> Result("none", Bool(p.v # 1), q)
          [] p.k = "nondigit" -> Result("ValueError", None, q)
          [] OTHER -> IF rs.k = "APIError" THEN Result("none", None, q + 1)
                      ELSE IF rs.k = "empty" THEN Result("none", Bool(FALSE), q + 1)
                      ELSE Result("none", Bool(TRUE), q + 1)

\* _get_uptime(api_stats), the same in both dialects.  Payload kinds: "nostats",
\* "short", "nokey", "ok" (Elapsed an integer or a string of digits, v its
\* value), "str" (Elapsed a string int() rejects)
GetUptime(arg, r) ==
    LET p == Payload(arg, r)
        q == Fetches(arg)
    IN  CASE p.k = "ok" -> Result("none", Some(p.v), q)
          [] p.k = "str" -> Result("ValueError", None, q)
          [] OTHER -> Result("none", None, q)

\* AntminerModern._get_errors(web_summary).  Payload kinds: "nosummary",
\* "short" (SUMMARY is empty), "nokey" (no status), "notlist" (status is a
\* number), "items" with v the number of the list
\* web_summary["SUMMARY"][0]["status"] among StatusLists; an item is
\* [status, msg], each an identifier or 0 when the key is absent, status 1 being
\* "s".  The value is the list of the messages of the errors.
StatusLists ==
    << <<>>,
       <<[status |-> 1, msg |-> 1]>>,
       <<[status |-> 2, msg |-> 1]>>,
       <<[status |-> 2, msg |-> 0], [status |-> 2, msg |-> 2]>>,
       <<[status |-> 0, msg |-> 1], [status |-> 2, msg |-> 2]>>,
       <<[status |-> 2, msg |-> 1], [status |-> 1, msg |-> 2], [status |-> 2, msg |-> 3]>> >>

RECURSIVE ErrorsOf(_)
ErrorsOf(items) ==
    IF items = <<>> THEN <<>>
    ELSE LET item == Head(items)
         IN  IF item.status = 0 \/ item.status = 1 \/ item.msg = 0
             THEN ErrorsOf(Tail(items))
             ELSE <<item.msg>> \o ErrorsOf(Tail(items))

ModernGetErrors(arg, r) ==
    LET p == Payload(arg, r)
        q == Fetches(arg)
    IN  CASE p.k = "items" -> ListResult("none", ErrorsOf(StatusLists[p.v]), q)
          [] p.k = "notlist" -> ListResult("TypeError", <<>>, q)
          [] OTHER -> ListResult("none", <<>>, q)

---------------------------------------------------------------------------
(* The device handle: toggles and the small field extractors *)

Unused == R("unused", 0)
Failure == R("APIError", 0)
Empty == R("empty", 0)

BlinkAnswers == {Failure, Empty, R("B000", 0), R("B100", 0), R("nocode", 0)}
OldBlinkAnswers == {Failure, Empty, R("ok", 0)}
StatusPayloads == {Empty, R("on", 0), R("off", 0), R("nokey", 0)}
InfoPayloads(id) == {Empty, R("nokey", 0), R("ok", id)}
RatePayloads ==
    {Empty, R("nostats", 0), R("short", 0), R("nokey", 0), R("str", 0)}
    \cup { R(u, v) : u \in {"GH", "MH", "other", "nounit"}, v \in {15000, 15000000, 12346} }
ConfPayloads ==
    {Empty, R("nokey", 0), R("digits", 0), R("digits", 1), R("nondigit", 0), R("int", 1)}
SummaryAnswers == {Failure, Empty, R("ok", 0)}
UptimePayloads ==
    {Empty, R("nostats", 0), R("short", 0), R("nokey", 0), R("ok", 3600), R("str", 0)}
ErrorPayloads ==
    {Empty, R("nosummary", 0), R("short", 0), R("nokey", 0), R("notlist", 0)}
    \cup { R("items", i) : i \in DOMAIN StatusLists }

InitSpec ==
    /\ InitHandle
    /\ dialect \in {"modern", "old"}
    /\ expected_hashboards = 3
    /\ expected_fans = 2
    /\ api_stats = [shape |-> "nostats"]

\* the call returns: what the handle keeps of it
\* the answers a fetch can get when the extractor makes it, Unused when it does not
FetchedFor(arg, answers) == IF Falsy(arg) THEN answers ELSE {Unused}

Call(name, arg, r1, r2, res) ==
    /\ op' = name
    /\ inp' = [arg |-> arg, r1 |-> r1, r2 |-> r2]
    /\ ret' = [exc |-> res.exc, val |-> res.val, list |-> res.list]
    /\ queries' = res.q
    /\ UNCHANGED <<dialect, expected_hashboards, expected_fans, api_stats>>

SetLight(l, name) ==
    /\ light' = l
    /\ lit_by' = IF l /\ ~light THEN name ELSE IF l THEN lit_by ELSE "none"

FaultLight(blink) ==
    LET name == IF blink THEN "fault_light_on" ELSE "fault_light_off"
    IN  /\ \/ /\ dialect = "modern"
              /\ \E r \in BlinkAnswers :
                    LET out == ModernFaultLight(light, blink, r)
                    IN  Call(name, NoArg, r, Unused, out.res) /\ SetLight(out.light, name)
           \/ /\ dialect = "old"
              /\ \E rb \in OldBlinkAnswers, rs \in StatusPayloads \cup {Failure} :
                    LET out == OldFaultLight(light, blink, rb, rs)
                    IN  Call(name, NoArg, rb, rs, out.res) /\ SetLight(out.light, name)
        /\ UNCHANGED <<config, device>>

FaultLightOn == FaultLight(TRUE)
FaultLightOff == FaultLight(FALSE)

GetFaultLightCall ==
    /\ \E arg \in StatusPayloads \cup {NoArg} :
       \E r \in IF light THEN {Unused} ELSE FetchedFor(arg, StatusPayloads \cup {Failure}) :
          LET out == GetFaultLight(light, arg, r)
          IN  Call("_get_fault_light", arg, r, Unused, out.res)
              /\ SetLight(out.light, "_get_fault_light")
    /\ UNCHANGED <<config, device>>

GetMacCall ==
    /\ \/ /\ dialect = "modern"
          /\ \E arg \in InfoPayloads(1) \cup {NoArg} :
             \E r1 \in FetchedFor(arg, InfoPayloads(2) \cup {Failure}) :
             \E r2 \in IF Payload(arg, r1).k = "ok" THEN {Unused}
                        ELSE InfoPayloads(3) \cup {Failure} :
                Call("_get_mac", arg, r1, r2, ModernGetMac(arg, r1, r2))
       \/ /\ dialect = "old"
          /\ \E r1 \in InfoPayloads(2) \cup {Failure} :
                Call("_get_mac", NoArg, r1, Unused, OldGetMac(r1))
    /\ UNCHANGED <<light, lit_by, config, device>>

GetHostnameCall ==
    /\ \E arg \in InfoPayloads(1) \cup {NoArg} :
       \E r1 \in FetchedFor(arg, InfoPayloads(2) \cup {Failure}) :
          Call("_get_hostname", arg, r1, Unused, GetHostname(arg, r1))
    /\ UNCHANGED <<light, lit_by, config, device>>

GetExpectedHashrateCall ==
    /\ dialect = "modern"
    /\ \E arg \in RatePayloads \cup {NoArg} :
       \E r \in FetchedFor(arg, RatePayloads \cup {Failure}) :
          Call("_get_expected_hashrate", arg, r, Unused, ModernGetExpectedHashrate(arg, r))
    /\ UNCHANGED <<light, lit_by, config, device>>

IsMiningCall ==
    /\ \/ /\ dialect = "modern"
          /\ \E arg \in ConfPayloads \cup {NoArg} :
             \E r \in FetchedFor(arg, ConfPayloads \cup {Failure}) :
                Call("_is_mining", arg, r, Unused, ModernIsMining(arg, r))
       \/ /\ dialect = "old"
          /\ \E arg \in ConfPayloads \cup {NoArg} :
             \E r \in FetchedFor(arg, ConfPayloads \cup {Failure}) :
             \E rs \in IF Payload(arg, r).k \in {"digits", "int", "nondigit"} THEN {Unused}
                        ELSE SummaryAnswers :
                Call("_is_mining", arg, r, rs, OldIsMining(arg, r, rs))
    /\ UNCHANGED <<light, lit_by, config, device>>

GetUptimeCall ==
    /\ \E arg \in UptimePayloads \cup {NoArg} :
       \E r \in FetchedFor(arg, UptimePayloads \cup {Failure}) :
          Call("_get_uptime", arg, r, Unused, GetUptime(arg, r))
    /\ UNCHANGED <<light, lit_by, config, device>>

GetErrorsCall ==
    /\ dialect = "modern"
    /\ \E arg \in ErrorPayloads \cup {NoArg} :
       \E r \in FetchedFor(arg, ErrorPayloads \cup {Failure}) :
          Call("_get_errors", arg, r, Unused, ModernGetErrors(arg, r))
    /\ UNCHANGED <<light, lit_by, config, device>>

Next ==
    \/ FaultLightOn
    \/ FaultLightOff
    \/ GetFaultLightCall
    \/ GetMacCall
    \/ GetHostnameCall
    \/ GetExpectedHashrateCall
    \/ IsMiningCall
    \/ GetUptimeCall
    \/ GetErrorsCall

Spec == InitSpec /\ [][Next]_vars

---------------------------------------------------------------------------
(* Properties of the handle *)

\* the registry fields whose extractor antminer.py defines and Spec calls
RegistryExtractors ==
    {"_get_mac", "_get_hostname", "_get_errors", "_get_fault_light",
     "_get_expected_hashrate", "_is_mining", "_get_uptime"}

\* the value the last call returned is the default of its field
ReturnedDefault ==
    CASE op = "_get_errors" -> ret.list = <<>>
      [] op = "_get_fault_light" -> ret.val = Bool(light)
      [] OTHER -> ret.val = None

\* C3: an extractor called with no payload, every transport call it issues
\* failing with APIError, does not raise and returns the default of its field.
C3_NoPayloadGivesDefault ==
    ( /\ op \in RegistryExtractors
      /\ inp.arg.k = "none"
      /\ inp.r1.k \in {"APIError", "unused"}
      /\ inp.r2.k \in {"APIError", "unused"} )
    => ret.exc = "none" /\ ReturnedDefault

\* the payload the last call worked on, and the ways it can be malformed: a
\* missing key, an index out of range, a value of the wrong type
Worked == Payload(inp.arg, inp.r1)
Malformed ==
    \/ Worked.k \in {"nokey", "nostats", "nosummary", "short", "str", "int", "notlist"}
    \/ dialect = "old" /\ op = "_is_mining" /\ Worked.k = "nondigit"

\* the extractors with a second source to fall back on
HasFallback == op = "_get_mac" \/ (op = "_is_mining" /\ dialect = "old")

\* C4: a malformed payload (missing key, wrong type, index out of range) makes
\* an extractor return its field's default (or go on to its fallback source)
\* instead of raising.
C4_MalformedGivesDefault ==
    (op \in RegistryExtractors /\ Malformed)
    => /\ ret.exc \in {"none", "APIError"}
       /\ (~HasFallback => ReturnedDefault)

\* the last call was a fault_light_on that got its confirming response
ConfirmedOn ==
    /\ op = "fault_light_on"
    /\ IF dialect = "modern" THEN inp.r1.k = "B000"
       ELSE inp.r1.k # "APIError" /\ inp.r2.k = "on"

\* C10: a fault_light_on that gets its confirming response leaves the cached
\* Light State ON, and a _get_fault_light made while the cache is ON returns ON,
\* issues no transport query and leaves the cache ON, with or without a payload.
C10_LightOnShortCircuits ==
    [][ /\ ConfirmedOn' => (light' = TRUE /\ ret'.exc = "none" /\ ret'.val = Bool(TRUE))
        /\ (op' = "_get_fault_light" /\ light = TRUE)
             => /\ ret'.exc = "none" /\ ret'.val = Bool(TRUE)
                /\ queries' = 0 /\ light' = TRUE
      ]_vars

\* C10 witness: the cache was switched ON by fault_light_on, and a later read
\* that was handed a payload saying the light is off returned ON without a query.
C10_Witness ==
    /\ lit_by = "fault_light_on"
    /\ op = "_get_fault_light"
    /\ inp.arg.k = "off"
    /\ light = TRUE
    /\ ret.val = Bool(TRUE)
    /\ queries = 0

\* the response a toggle waits for: the answer of blink() in the Modern dialect,
\* of the get_blink_status() that follows blink() in the Legacy dialect
ToggleResponse == IF dialect = "modern" THEN inp.r1 ELSE inp.r2

\* the last call was a toggle whose response came back without its confirmation:
\* empty, without the sentinel key, or with a sentinel that does not confirm
UnconfirmedToggle ==
    /\ op \in {"fault_light_on", "fault_light_off"}
    /\ inp.r1.k # "APIError"
    /\ IF dialect = "modern"
       THEN ToggleResponse.k \in
              {"empty", "nocode", IF op = "fault_light_on" THEN "B100" ELSE "B000"}
       ELSE ToggleResponse.k \in
              {"empty", "nokey", IF op = "fault_light_on" THEN "off" ELSE "on"}

\* C11: a fault_light_on or fault_light_off, in either dialect, whose response is
\* empty, lacks the sentinel key or carries a sentinel that does not confirm
\* leaves the cached Light State as it was before the call, returns that prior
\* state and raises nothing.
C11_UnconfirmedToggleKeepsLight ==
    [][ UnconfirmedToggle'
          => /\ light' = light
             /\ ret'.exc = "none"
             /\ ret'.val = Bool(light)
      ]_vars

\* C11 witness: the cache was switched ON by fault_light_on, and a Legacy
\* fault_light_off whose blink status has no isBlinking key returned ON and left
\* the cache ON.
C11_Witness ==
    /\ dialect = "old"
    /\ op = "fault_light_off"
    /\ UnconfirmedToggle
    /\ inp.r2.k = "nokey"
    /\ lit_by = "fault_light_on"
    /\ light = TRUE
    /\ ret.exc = "none"
    /\ ret.val = Bool(TRUE)

---------------------------------------------------------------------------
(* Device configuration: get_config, send_config, stop_mining, resume_mining, *)
(* reboot                                                                     *)

\* the most configs the device is sent in one behaviour
MaxSends == 3

\* A miner configuration on the wire is a number 0..3: its parity is the mining
\* mode (odd for sleep), the rest the pool group it carries.
ConfCodes == 0..3

\* MinerConfig.from_am_modern / from_am_old: the config a payload describes
from_am(v) ==
    [set |-> TRUE, mode |-> IF v % 2 = 1 THEN "sleep" ELSE "normal",
     pools |-> 1 + (v \div 2)]

\* MinerConfig.as_am_modern / as_am_old: the payload that describes a config
as_am(c) == 2 * (c.pools - 1) + (IF c.mode = "sleep" THEN 1 ELSE 0)

\* the configs a caller may hand to send_config
MinerConfigs == { from_am(v) : v \in ConfCodes }

\* a config as a returned value (None while the handle holds no config)
ConfigValue(c) == IF c.set THEN Some(as_am(c)) ELSE None

\* get_config(): r answers web.get_miner_conf(), whose APIError nothing catches
GetConfig(cfg, r) ==
    LET cfg2 == IF r.k = "conf" THEN from_am(r.v) ELSE cfg
    IN  IF r.k = "APIError" THEN [res |-> Result("APIError", None, 1), config |-> cfg]
        ELSE [res |-> Result("none", ConfigValue(cfg2), 1), config |-> cfg2]

\* what the device holds after web.set_miner_conf(payload) was answered with r
Received(dev, payload, r) ==
    IF r.k = "APIError" THEN dev
    ELSE [conf |-> from_am(payload), sent |-> dev.sent + 1]

\* send_config(config): self.config is assigned before the config is sent
SendConfig(c, dev, r) ==
    [res |-> Result(IF r.k = "APIError" THEN "APIError" ELSE "none", None, 1),
     config |-> c,
     device |-> Received(dev, as_am(c), r)]

\* a stop_mining / resume_mining that sends the fetched config before it changes
\* the mode
SetMinerModeAfterSend(cfg, dev, mode, r1, r2) ==
    LET got == GetConfig(cfg, r1)
        sent == SendConfig(got.config, dev, r2)
    IN  IF got.res.exc # "none"
          THEN [res |-> Result(got.res.exc, None, 1), config |-> cfg, device |-> dev]
        ELSE IF ~got.config.set
          THEN [res |-> Result("AttributeError", None, 1), config |-> got.config,
                device |-> dev]
        ELSE IF sent.res.exc # "none"
          THEN [res |-> Result(sent.res.exc, None, 2), config |-> sent.config,
                device |-> sent.device]
        ELSE [res |-> Result("none", Bool(TRUE), 2),
              config |-> [sent.config EXCEPT !.mode = mode], device |-> sent.device]

\* AntminerModern.stop_mining / resume_mining: cfg = get_config(), then
\* cfg.miner_mode = mode on the object the handle holds, then send_config(cfg)
SetMinerMode(cfg, dev, mode, r1, r2) ==
    LET got == GetConfig(cfg, r1)
        changed == [got.config EXCEPT !.mode = mode]
        sent == SendConfig(changed, dev, r2)
    IN  IF got.res.exc # "none"
          THEN [res |-> Result(got.res.exc, None, 1), config |-> cfg, device |-> dev]
        ELSE IF ~got.config.set
          THEN [res |-> Result("AttributeError", None, 1), config |-> got.config,
                device |-> dev]
        ELSE IF sent.res.exc # "none"
          THEN [res |-> Result(sent.res.exc, None, 2), config |-> sent.config,
                device |-> sent.device]
        ELSE [res |-> Result("none", Bool(TRUE), 2), config |-> sent.config,
              device |-> sent.device]

\* reboot(): True for any payload the transport returned
Reboot(r) ==
    IF r.k = "APIError" THEN Result("APIError", None, 1)
    ELSE Result("none", Bool(r.k # "empty"), 1)

MinerConfAnswers == {Failure, Empty} \cup { R("conf", v) : v \in ConfCodes }
SetConfAnswers == {Failure, Empty, R("ok", 0)}
RebootAnswers == {Failure, Empty, R("ok", 0)}

InitConfigSpec ==
    /\ InitHandle
    /\ dialect \in {"modern", "old"}
    /\ expected_hashboards = 3
    /\ expected_fans = 2
    /\ api_stats = [shape |-> "nostats"]

\* what a config call leaves on the handle and on the device
Configured(out) ==
    /\ config' = out.config
    /\ device' = out.device
    /\ UNCHANGED <<light, lit_by>>

GetConfigCall ==
    \E r \in MinerConfAnswers :
        LET out == GetConfig(config, r)
        IN  /\ Call("get_config", NoArg, r, Unused, out.res)
            /\ Configured([config |-> out.config, device |-> device])

SendConfigCall ==
    /\ device.sent < MaxSends
    /\ \E c \in MinerConfigs, r \in SetConfAnswers :
          LET out == SendConfig(c, device, r)
          IN  /\ Call("send_config", R("config", as_am(c)), r, Unused, out.res)
              /\ Configured(out)

MiningMode(name, mode) ==
    /\ dialect = "modern"
    /\ device.sent < MaxSends
    /\ \E r1 \in MinerConfAnswers :
       \E r2 \in IF r1.k = "APIError" \/ ~GetConfig(config, r1).config.set
                  THEN {Unused} ELSE SetConfAnswers :
          LET out == SetMinerMode(config, device, mode, r1, r2)
          IN  /\ Call(name, NoArg, r1, r2, out.res)
              /\ Configured(out)

StopMining == MiningMode("stop_mining", "sleep")
ResumeMining == MiningMode("resume_mining", "normal")

RebootCall ==
    /\ \E r \in RebootAnswers : Call("reboot", NoArg, r, Unused, Reboot(r))
    /\ UNCHANGED <<light, lit_by, config, device>>

NextConfig ==
    \/ GetConfigCall
    \/ SendConfigCall
    \/ StopMining
    \/ ResumeMining
    \/ RebootCall

SpecConfig == InitConfigSpec /\ [][NextConfig]_vars

---------------------------------------------------------------------------
(* Properties of the configuration calls *)

\* C12: a get_config whose transport response is empty returns nothing an
\* earlier call fetched or sent: what it returns is the same whatever calls
\* were made on the handle before it, namely what a new handle returns.
C12_EmptyResponseReturnsNoEarlierConfig ==
    (op = "get_config" /\ inp.r1.k = "empty")
    => ret.exc = "none" /\ ret.val = ConfigValue(InitConfig)

\* the last call was a stop_mining or resume_mining, and the mode it asks for
MiningModeCall == op \in {"stop_mining", "resume_mining"}
RequestedMode == IF op = "stop_mining" THEN "sleep" ELSE "normal"

\* the config the call's one fetch gave it: the one get_miner_conf() answered
\* with, or the one held before the call when the answer was empty
FetchedConfig(held) == IF inp.r1.k = "conf" THEN from_am(inp.r1.v) ELSE held

\* C13: a stop_mining or resume_mining of the Modern dialect that returns True
\* made one config fetch and one send, in that order; the config sent is the
\* fetched one with only its mining mode changed to the requested mode (sleep
\* for stop, normal for resume), and it is both the config the device was last
\* sent and the config the handle holds, after any sequence of calls.
C13_MiningModeFetchedChangedSent ==
    [][ (MiningModeCall' /\ ret'.exc = "none" /\ ret'.val = Bool(TRUE))
          => /\ dialect = "modern"
             /\ queries' = 2
             /\ inp'.r1.k \in {"conf", "empty"} /\ inp'.r2.k \in {"ok", "empty"}
             /\ FetchedConfig(config)'.set
             /\ config' = [FetchedConfig(config)' EXCEPT !.mode = RequestedMode']
             /\ device'.conf = config'
             /\ device'.sent = device.sent + 1
      ]_vars

\* C13 witness: after an earlier config had been sent, a stop_mining fetched a
\* config in normal mode with pool group 2 and returned True; device and handle
\* now hold that config in sleep mode.
C13_Witness ==
    /\ op = "stop_mining"
    /\ ret.val = Bool(TRUE)
    /\ inp.r1 = R("conf", as_am([set |-> TRUE, mode |-> "normal", pools |-> 2]))
    /\ device.sent >= 2
    /\ device.conf = [set |-> TRUE, mode |-> "sleep", pools |-> 2]
    /\ config = device.conf

---------------------------------------------------------------------------
(* Partially populated boards, Modern dialect *)

\* the position in the board list that chain entry e names, 0 when it names none
NamedSlot(e, n) == IF e.index.t = "int" THEN PyIndex(e.index.v, n) ELSE 0

\* C14: whatever the chain list holds, a board AntminerModern._get_hashboards
\* returns with missing = true has hashrate, chips, temp, chip_temp and
\* serial_number at their defaults, and every well-formed entry of the list is
\* reflected in the board it names (unless a later entry names the same board),
\* wherever it stands relative to a malformed entry.
C14_NoPartiallyPopulatedBoard ==
    (ModernChainCall /\ ret.exc = "none")
    => /\ Len(Returned) = expected_hashboards
       /\ \A j \in DOMAIN Returned :
            Returned[j].missing => Returned[j] = HashBoard(j - 1)
       /\ \A p \in DOMAIN api_stats.chain :
            LET e == api_stats.chain[p]
                j == NamedSlot(e, expected_hashboards)
            IN  ( /\ e \in GoodEntries(expected_hashboards)
                  /\ \A q \in DOMAIN api_stats.chain :
                        q > p => NamedSlot(api_stats.chain[q], expected_hashboards) # j )
                => Populated(Returned[j], e)

====
